---- MODULE Spec2Model ----
(***************************************************************************)
(* Model of the softball lineup optimizer: softball_simulation.py (the     *)
(* legality filter, the lineup generator, the at-bat model, the inning     *)
(* simulator and the search driver) and test_legal_lineups.py (the test    *)
(* script's own filter and generator).                                     *)
(*                                                                         *)
(* Ratings ("average bases per at-bat") are fixed-point numbers in units   *)
(* of 1/Scale; a draw of random.random() is a value u/Scale of [0,1).      *)
(* An average of runs is a fixed-point number in units of 1/num_games.     *)
(***************************************************************************)
EXTENDS Integers, Sequences, FiniteSets, TLC

VARIABLES
    done,               \* the operations that have run to their end
    all_players,        \* the roster handed to generate_legal_lineups / find_best_lineup
    legal_lineups,      \* result of softball_simulation.generate_legal_lineups
    test_legal_lineups, \* result of test_legal_lineups.generate_legal_lineups
    test_is_legal,      \* test_legal_lineups.py line 77: is_legal_lineup(test_lineup)
    ratings,            \* the global PLAYERS table as configured for the run
    player_name,        \* argument of simulate_at_bat
    at_bat,             \* value returned by simulate_at_bat
    player_list,        \* argument of simulate_inning
    bases,              \* simulate_inning: bases[0..3]
    runs,               \* simulate_inning: runs
    outs,               \* simulate_inning: outs
    player_index,       \* simulate_inning: player_index (at-bats started)
    hits,               \* history: at-bats so far with a non-zero outcome
    inning_runs,        \* value returned by simulate_inning
    num_games,          \* find_best_lineup: num_games_per_lineup
    max_lineups_to_test,\* find_best_lineup: max_lineups_to_test (0 for None)
    all_lineups,        \* find_best_lineup: the lineups to evaluate
    lineup_i,           \* find_best_lineup: lineups evaluated so far (the loop's i)
    best_lineup,        \* find_best_lineup: best_lineup
    best_avg_runs,      \* find_best_lineup: best_avg_runs, in units of 1/num_games
    best_game_results,  \* find_best_lineup: best_game_results
    lineup_results      \* find_best_lineup: lineup_results

lineupVars == <<all_players, legal_lineups, test_legal_lineups, test_is_legal>>
atBatVars  == <<ratings, player_name, at_bat>>
inningVars == <<player_list, bases, runs, outs, player_index, hits, inning_runs>>
driverVars == <<num_games, max_lineups_to_test, all_lineups, lineup_i, best_lineup,
                best_avg_runs, best_game_results, lineup_results>>
vars == <<done, lineupVars, atBatVars, inningVars, driverVars>>

\* Python's None where a player or a lineup is expected
None == "None"

NoLineup == <<None>>

\* ------------------------------------------------------------------ bounds
PoolSize == 6        \* rosters are drawn from the first PoolSize players of PLAYING
RatingLow == 3       \* configured ratings range over the multiples of 1/4 in
RatingHigh == 6      \*   [-RatingLow, RatingHigh]
MaxBatters == 2      \* longest batting list handed to simulate_inning
InningPool == 2      \* batting lists are drawn from the first InningPool players
DriverPool == 3      \* find_best_lineup's rosters: the first DriverPool players
MaxSimulated == 2    \* most games one find_best_lineup call simulates in all

\* ----------------------------------------------------------- configuration
Scale == 20          \* the ratings of PLAYERS are multiples of 1/20

PLAYERS ==
    ("Ross" :> 13) @@ ("Brendon" :> 18) @@ ("Lindsey" :> 6) @@ ("Aidan" :> 25) @@
    ("Robbie" :> 13) @@ ("Kaitlin" :> 9) @@ ("Kate" :> 4) @@ ("Thomas" :> 10) @@
    ("Jake" :> 12) @@ ("Josh" :> 12)

PLAYING ==
    <<"Ross", "Brendon", "Lindsey", "Aidan", "Robbie", "Kaitlin", "Kate",
      "Thomas", "Jake", "Josh">>

WOMEN == {"Lindsey", "Kate", "Kaitlin", "Srishti", "Allison"}

MEN == (DOMAIN PLAYERS) \ WOMEN

\* test_legal_lineups.py: the same names, its own category sets
women == {"Lindsey", "Kate", "Kaitlin"}

men == (DOMAIN PLAYERS) \ women

\* ---------------------------------------------------------------- helpers
Min(a, b) == IF a < b THEN a ELSE b

Range(s) == {s[k] : k \in DOMAIN s}

\* list(s)[:k]
Take(s, k) == SubSeq(s, 1, Min(k, Len(s)))

\* the list s without its k-th element
Without(s, k) == SubSeq(s, 1, k - 1) \o SubSeq(s, k + 1, Len(s))

\* ------------------------------------------------- softball_simulation.py
\* One pass of the counting loop of is_legal_lineup over seq, from element k
\* with consecutive_men = c: FALSE as soon as the counter exceeds 3.
RECURSIVE scan(_, _, _)
scan(seq, k, consecutive_men) ==
    IF k > Len(seq) THEN TRUE
    ELSE IF seq[k] \in MEN
         THEN IF consecutive_men + 1 > 3 THEN FALSE
              ELSE scan(seq, k + 1, consecutive_men + 1)
         ELSE scan(seq, k + 1, 0)

max_wrap == 3

wrap_lineup_short(lineup) == lineup \o Take(lineup, max_wrap - 1)

wrap_lineup(lineup) == lineup \o Take(lineup, max_wrap)

is_legal_lineup(lineup) ==
    IF ~scan(lineup, 1, 0) THEN FALSE
    ELSE IF ~scan(wrap_lineup(lineup), 1, 0) THEN FALSE
    ELSE TRUE

\* itertools.permutations(s), in its order: by the position of the first
\* element, then the permutations of the rest.
RECURSIVE permutations(_)
RECURSIVE permutations_from(_, _)
permutations_from(s, k) ==
    IF k > Len(s) THEN <<>>
    ELSE LET rest == permutations(Without(s, k))
         IN  [j \in 1..Len(rest) |-> <<s[k]>> \o rest[j]] \o permutations_from(s, k + 1)

permutations(s) == IF Len(s) = 0 THEN << <<>> >> ELSE permutations_from(s, 1)

generate_legal_lineups(players) == SelectSeq(permutations(players), is_legal_lineup)

\* ---------------------------------------------------- test_legal_lineups.py
\* for i in range(len - 2): count the men among positions i, i+1, i+2.
test_is_legal_lineup(lineup) ==
    \A w \in 0..(Len(lineup) - 3) :
        LET consecutive_men ==
                Cardinality({j \in 0..2 : w + j < Len(lineup) /\ lineup[w + j + 1] \in men})
        IN  ~(consecutive_men > 3)

test_generate_legal_lineups(players) ==
    SelectSeq(permutations(players), test_is_legal_lineup)

\* the script's "scenario that should be illegal" (line 75)
test_lineup ==
    <<"Ross", "Brendon", "Jake", "Josh", "Lindsey", "Aidan", "Robbie", "Thomas",
      "Kaitlin", "Kate">>

\* ------------------------------------------------------------ at-bat model
\* Python's int() on a rating of x/Scale: truncation toward zero.
int(x) == IF x >= 0 THEN x \div Scale ELSE -((-x) \div Scale)

\* Lines 66-71 for a rating avg_bases and a draw u/Scale of random.random().
at_bat_value(avg_bases, u) ==
    LET decimal_part == avg_bases - int(avg_bases) * Scale
    IN  IF u < decimal_part
        THEN Min(int(avg_bases) + 1, 4)
        ELSE Min(int(avg_bases), 4)

simulate_at_bat(name, u) ==
    IF name \notin DOMAIN ratings THEN 0
    ELSE at_bat_value(ratings[name], u)

\* the values random.random() < decimal_part can tell apart
Draws == 0..(Scale - 1)

RatingValues == {(Scale \div 4) * q : q \in (-4 * RatingLow)..(4 * RatingHigh)}

NonNegativeRatings == {r \in RatingValues : r >= 0}

\* what simulate_at_bat can return for a player of non-negative rating
BasesOutcomes == {at_bat_value(r, u) : r \in NonNegativeRatings, u \in Draws}

\* --------------------------------------------------------- inning simulator
EmptyBases == [k \in 0..3 |-> None]

\* The runner loop with a moved runner's old slot left occupied.
RECURSIVE move_runners_not_vacated(_, _, _, _)
move_runners_not_vacated(b, r, k, bases_gained) ==
    IF k < 0 THEN [bases |-> b, runs |-> r]
    ELSE IF b[k] # None
         THEN LET new_position == k + bases_gained
              IN  IF new_position >= 4
                  THEN move_runners_not_vacated([b EXCEPT ![k] = None], r + 1, k - 1,
                                                bases_gained)
                  ELSE move_runners_not_vacated([b EXCEPT ![new_position] = b[k]],
                                                r, k - 1, bases_gained)
         ELSE move_runners_not_vacated(b, r, k - 1, bases_gained)

\* for i in range(3, -1, -1), in place: the loop from slot k down to slot 0.
RECURSIVE move_runners(_, _, _, _)
move_runners(b, r, k, bases_gained) ==
    IF k < 0 THEN [bases |-> b, runs |-> r]
    ELSE IF b[k] # None
         THEN LET new_position == k + bases_gained
              IN  IF new_position >= 4
                  THEN move_runners([b EXCEPT ![k] = None], r + 1, k - 1, bases_gained)
                  ELSE move_runners([[b EXCEPT ![new_position] = b[k]] EXCEPT ![k] = None],
                                    r, k - 1, bases_gained)
         ELSE move_runners(b, r, k - 1, bases_gained)

\* One iteration of the while loop for the batter `player` whose at-bat gave
\* bases_gained, on the state st = [bases, runs, outs, player_index].
at_bat_step(st, player, bases_gained) ==
    IF bases_gained = 0
    THEN [st EXCEPT !.outs = st.outs + 1, !.player_index = st.player_index + 1]
    ELSE LET moved == move_runners(st.bases, st.runs, 3, bases_gained)
         IN  IF bases_gained >= 4
             THEN [bases |-> moved.bases, runs |-> moved.runs + 1, outs |-> st.outs,
                   player_index |-> st.player_index + 1]
             ELSE [bases |-> [moved.bases EXCEPT ![bases_gained - 1] = player],
                   runs |-> moved.runs, outs |-> st.outs,
                   player_index |-> st.player_index + 1]

loop_condition_four_outs(o, r) == o < 4 /\ r < 6

\* while outs < 3 and runs < 6
loop_condition(o, r) == o < 3 /\ r < 6

batter(list, index) == list[(index % Len(list)) + 1]

\* ------------------------------------------------------- lineup evaluator
\* what simulate_at_bat(name) can return, over the draws of random.random()
at_bat_outcomes(name) == {simulate_at_bat(name, u) : u \in Draws}

\* The values simulate_inning's loop can return from the state st: every
\* at-bat takes each outcome its batter can draw.
RECURSIVE inning_totals(_, _)
inning_totals(st, list) ==
    IF ~loop_condition(st.outs, st.runs) THEN {st.runs}
    ELSE IF list = <<>> THEN {st.runs}
    ELSE LET player == batter(list, st.player_index)
         IN  UNION {inning_totals(at_bat_step(st, player, bases_gained), list) :
                       bases_gained \in at_bat_outcomes(player)}

\* the values simulate_inning(list) can return
simulate_inning(list) ==
    inning_totals([bases |-> EmptyBases, runs |-> 0, outs |-> 0, player_index |-> 0],
                  list)

\* the totals of n innings whose runs are drawn from S, each on its own
RECURSIVE inning_sums(_, _)
inning_sums(S, n) ==
    IF n = 0 THEN {0} ELSE {a + c : a \in inning_sums(S, n - 1), c \in S}

\* the values simulate(list) can return: for inning in range(6)
simulate(list) == inning_sums(simulate_inning(list), 6)

RECURSIVE Sum(_)
Sum(s) == IF s = <<>> THEN 0 ELSE s[1] + Sum(Tail(s))

\* simulate_multiple_games(list, n): the game_results it can return
simulate_multiple_games(list, n) == [1..n -> simulate(list)]

\* avg_runs = total_runs / num_games, in units of 1/num_games
avg_of(game_results) == Sum(game_results)

\* lines 139-145: how many lineups the call evaluates
lineups_tested(legal, max) ==
    IF max # 0 /\ Len(legal) > max THEN max ELSE Len(legal)

\* line 159: if avg_runs > best_avg_runs
improves(avg_runs, best) == avg_runs > best

\* random.shuffle(all_lineups); all_lineups[:k] -- every ordered choice of k
\* distinct lineups of the list
Samples(list, k) ==
    {[j \in 1..k |-> list[f[j]]] :
        f \in {g \in [1..k -> 1..Len(list)] : \A a, b \in 1..k : a # b => g[a] # g[b]}}

\* ------------------------------------------------------------------ inputs
\* The first n players of PLAYING that are in S, in PLAYING's order.
roster(S, n) == SelectSeq(SubSeq(PLAYING, 1, n), LAMBDA p : p \in S)

Rosters == {roster(S, PoolSize) : S \in SUBSET Range(SubSeq(PLAYING, 1, PoolSize))}

BattingLists ==
    UNION {[1..n -> Range(SubSeq(PLAYING, 1, InningPool))] : n \in 0..MaxBatters}

DriverRosters == 
    {roster(S, DriverPool) : S \in SUBSET Range(SubSeq(PLAYING, 1, DriverPool))}

\* ------------------------------------------------------- initial conditions
LineupIdle ==
    /\ all_players = <<>> /\ legal_lineups = <<>> /\ test_legal_lineups = <<>>
    /\ test_is_legal = FALSE

AtBatIdle ==
    /\ ratings = PLAYERS /\ player_name = None /\ at_bat = 0

InningIdle ==
    /\ player_list = <<>> /\ bases = EmptyBases /\ runs = 0 /\ outs = 0
    /\ player_index = 0 /\ hits = 0 /\ inning_runs = 0

DriverIdle ==
    /\ num_games = 0 /\ max_lineups_to_test = 0 /\ all_lineups = <<>>
    /\ lineup_i = 0 /\ best_lineup = NoLineup /\ best_avg_runs = 0
    /\ best_game_results = <<>> /\ lineup_results = <<>>

\* ----------------------------------------------- the two lineup generators
InitLineups ==
    /\ done = {}
    /\ all_players \in Rosters
    /\ legal_lineups = <<>> /\ test_legal_lineups = <<>> /\ test_is_legal = FALSE
    /\ AtBatIdle /\ InningIdle /\ DriverIdle

Generate ==
    /\ "generate_legal_lineups" \notin done
    /\ legal_lineups' = generate_legal_lineups(all_players)
    /\ done' = done \cup {"generate_legal_lineups"}
    /\ UNCHANGED <<all_players, test_legal_lineups, test_is_legal, atBatVars, inningVars, driverVars>>

TestGenerate ==
    /\ "test_generate_legal_lineups" \notin done
    /\ test_legal_lineups' = test_generate_legal_lineups(all_players)
    /\ done' = done \cup {"test_generate_legal_lineups"}
    /\ UNCHANGED <<all_players, legal_lineups, test_is_legal, atBatVars, inningVars, driverVars>>

\* test_legal_lineups.py lines 75-77: the script's check of its own filter
TestScenario ==
    /\ "test_scenario" \notin done
    /\ test_is_legal' = test_is_legal_lineup(test_lineup)
    /\ done' = done \cup {"test_scenario"}
    /\ UNCHANGED <<all_players, legal_lineups, test_legal_lineups, atBatVars,
                   inningVars, driverVars>>

NextLineups == Generate \/ TestGenerate \/ TestScenario

SpecLineups == InitLineups /\ [][NextLineups]_vars

\* ------------------------------------------------------------------ at-bat
InitAtBat ==
    /\ done = {}
    /\ ratings \in {[PLAYERS EXCEPT !["Ross"] = r] : r \in RatingValues}
    /\ player_name \in {"Ross", "Aidan", "Srishti"}
    /\ at_bat = 0
    /\ LineupIdle /\ InningIdle /\ DriverIdle

AtBat ==
    /\ "simulate_at_bat" \notin done
    /\ \E u \in Draws : at_bat' = simulate_at_bat(player_name, u)
    /\ done' = done \cup {"simulate_at_bat"}
    /\ UNCHANGED <<ratings, player_name, lineupVars, inningVars, driverVars>>

NextAtBat == AtBat

SpecAtBat == InitAtBat /\ [][NextAtBat]_vars

\* ------------------------------------------------------------------ inning
InitInning ==
    /\ done = {}
    /\ player_list \in BattingLists
    /\ bases = EmptyBases /\ runs = 0 /\ outs = 0 /\ player_index = 0
    /\ hits = 0 /\ inning_runs = 0
    /\ LineupIdle /\ AtBatIdle /\ DriverIdle

InningAtBat ==
    /\ "simulate_inning" \notin done
    /\ loop_condition(outs, runs)
    /\ player_list # <<>>
    /\ \E bases_gained \in BasesOutcomes :
          LET player == batter(player_list, player_index)
              st == at_bat_step([bases |-> bases, runs |-> runs, outs |-> outs,
                                 player_index |-> player_index], player, bases_gained)
          IN  /\ bases' = st.bases
              /\ runs' = st.runs
              /\ outs' = st.outs
              /\ player_index' = st.player_index
              /\ hits' = IF bases_gained = 0 THEN hits ELSE hits + 1
    /\ UNCHANGED <<done, player_list, inning_runs, lineupVars, atBatVars, driverVars>>

InningBreak ==
    /\ "simulate_inning" \notin done
    /\ loop_condition(outs, runs)
    /\ player_list = <<>>
    /\ done' = done \cup {"simulate_inning"}
    /\ inning_runs' = runs
    /\ UNCHANGED <<player_list, bases, runs, outs, player_index, hits,
                   lineupVars, atBatVars, driverVars>>

InningReturn ==
    /\ "simulate_inning" \notin done
    /\ ~loop_condition(outs, runs)
    /\ done' = done \cup {"simulate_inning"}
    /\ inning_runs' = runs
    /\ UNCHANGED <<player_list, bases, runs, outs, player_index, hits,
                   lineupVars, atBatVars, driverVars>>

NextInning == InningAtBat \/ InningBreak \/ InningReturn

SpecInning == InitInning /\ [][NextInning]_vars

\* ----------------------------------------------------------- search driver
InitDriver ==
    /\ done = {}
    /\ all_players \in DriverRosters
    /\ num_games \in 1..MaxSimulated
    /\ max_lineups_to_test \in 0..MaxSimulated
    /\ num_games * lineups_tested(generate_legal_lineups(all_players), max_lineups_to_test)
          <= MaxSimulated
    /\ all_lineups = <<>> /\ lineup_i = 0
    /\ best_lineup = NoLineup /\ best_avg_runs = 0 /\ best_game_results = <<>>
    /\ lineup_results = <<>>
    /\ legal_lineups = <<>> /\ test_legal_lineups = <<>> /\ test_is_legal = FALSE
    /\ AtBatIdle /\ InningIdle

\* lines 136-153, the branch that tests every legal lineup
StartAll ==
    /\ "generate" \notin done
    /\ LET legal == generate_legal_lineups(all_players)
       IN  /\ ~(max_lineups_to_test # 0 /\ Len(legal) > max_lineups_to_test)
           /\ all_lineups' = legal
    /\ done' = done \cup {"generate"}
    /\ best_lineup' = NoLineup /\ best_avg_runs' = 0 /\ best_game_results' = <<>>
    /\ lineup_results' = <<>> /\ lineup_i' = 0
    /\ UNCHANGED <<num_games, max_lineups_to_test, lineupVars, atBatVars, inningVars>>

\* lines 136-153, the branch that shuffles and truncates
StartSample ==
    /\ "generate" \notin done
    /\ LET legal == generate_legal_lineups(all_players)
       IN  /\ max_lineups_to_test # 0 /\ Len(legal) > max_lineups_to_test
           /\ all_lineups' \in Samples(legal, max_lineups_to_test)
    /\ done' = done \cup {"generate"}
    /\ best_lineup' = NoLineup /\ best_avg_runs' = 0 /\ best_game_results' = <<>>
    /\ lineup_results' = <<>> /\ lineup_i' = 0
    /\ UNCHANGED <<num_games, max_lineups_to_test, lineupVars, atBatVars, inningVars>>

\* lines 155-162: one iteration of the loop over all_lineups
Evaluate ==
    /\ "generate" \in done /\ "find_best_lineup" \notin done
    /\ lineup_i < Len(all_lineups)
    /\ LET lineup == all_lineups[lineup_i + 1]
       IN  \E game_results \in simulate_multiple_games(lineup, num_games) :
              LET avg_runs == avg_of(game_results)
              IN  /\ lineup_results' =
                         Append(lineup_results, <<lineup, avg_runs, game_results>>)
                  /\ IF improves(avg_runs, best_avg_runs)
                     THEN /\ best_avg_runs' = avg_runs
                          /\ best_lineup' = lineup
                          /\ best_game_results' = game_results
                     ELSE UNCHANGED <<best_avg_runs, best_lineup, best_game_results>>
    /\ lineup_i' = lineup_i + 1
    /\ UNCHANGED <<done, num_games, max_lineups_to_test, all_lineups, lineupVars,
                   atBatVars, inningVars>>

\* lines 171-172: the loop is over
Return ==
    /\ "generate" \in done /\ "find_best_lineup" \notin done
    /\ lineup_i = Len(all_lineups)
    /\ done' = done \cup {"find_best_lineup"}
    /\ UNCHANGED <<lineupVars, atBatVars, inningVars, driverVars>>

NextDriver == StartAll \/ StartSample \/ Evaluate \/ Return

SpecDriver == InitDriver /\ [][NextDriver]_vars

\* ------------------------------------------------------------------ claims
Occupied == {k \in 0..3 : bases[k] # None}

\* the permutations of the list s, as a set
PermutationsOf(s) ==
    {[k \in 1..Len(s) |-> s[f[k]]] : f \in Permutations(1..Len(s))}

\* some 4 positions consecutive in circular order all hold MEN
FourMenCircular(p) ==
    \E s \in 0..(Len(p) - 1) : \A k \in 0..3 : p[((s + k) % Len(p)) + 1] \in MEN

\* C1: for a roster of at least 4 distinct players, generate_legal_lineups
\* returns exactly the permutations of the roster with no 4 circularly
\* consecutive MEN: each of them once, and nothing else.
C1_GeneratorExact ==
    ("generate_legal_lineups" \in done /\ Len(all_players) >= 4) =>
        /\ Range(legal_lineups) =
               {p \in PermutationsOf(all_players) : ~FourMenCircular(p)}
        /\ Cardinality(Range(legal_lineups)) = Len(legal_lineups)

\* a roster some of whose lineups are kept and some excluded only by the
\* run of men that wraps from the end to the start
C1_Witness ==
    /\ "generate_legal_lineups" \in done
    /\ Len(all_players) >= 4
    /\ legal_lineups # <<>>
    /\ \E p \in PermutationsOf(all_players) :
          /\ scan(p, 1, 0)
          /\ FourMenCircular(p)
          /\ p \notin Range(legal_lineups)

\* C5: for a roster with at most 3 MEN, is_legal_lineup accepts every
\* permutation of the roster, rosters of fewer than 4 players included.
C5_NeverOverRejects ==
    ("generate_legal_lineups" \in done
        /\ Cardinality(Range(all_players) \cap MEN) <= 3) =>
        PermutationsOf(all_players) \subseteq Range(legal_lineups)

\* 4 or more men in consecutive positions (test_legal_lineups.py's categories)
FourMenInARow(p) ==
    \E s \in 1..(Len(p) - 3) : \A k \in 0..3 : p[s + k] \in men

\* C8: the test script's is_legal_lineup returns False for every lineup with
\* 4 or more men in consecutive positions, its own test lineup among them,
\* and its generate_legal_lineups excludes every such lineup.
C8_TestFilterRejectsFourMen ==
    /\ "test_scenario" \in done => test_is_legal = FALSE
    /\ "test_generate_legal_lineups" \in done =>
          \A k \in 1..Len(test_legal_lineups) : ~FourMenInARow(test_legal_lineups[k])

\* C7: simulate_at_bat returns an integer in {0,1,2,3,4} for every registered
\* player, every rating and every draw.
C7_AtBatInRange ==
    ("simulate_at_bat" \in done /\ player_name \in DOMAIN ratings) => at_bat \in 0..4

\* C2: the value returned by simulate_inning never exceeds 6.
C2_InningRunsAtMostSix ==
    "simulate_inning" \in done => inning_runs <= 6

\* C3: after every completed at-bat the base array holds at most 3 runners.
C3_AtMostThreeRunners ==
    Cardinality(Occupied) <= 3

\* C9: after every completed at-bat, the at-bats so far with a non-zero
\* outcome are the runs scored so far plus the occupied base slots: no runner
\* is overwritten, lost or duplicated.
C9_RunnersConserved ==
    hits = runs + Cardinality(Occupied)

\* several runners on base have been advanced together and some have scored
C9_Witness ==
    /\ hits >= 5 /\ runs >= 2 /\ Cardinality(Occupied) >= 2 /\ outs >= 1

\* C10: simulate_inning terminates: the loop takes at most 12 at-bats and
\* always has a next step until it returns; a non-empty batting list ends
\* with outs = 3 or runs >= 6, an empty one at once with 0 runs.
C10_InningTerminates ==
    /\ player_index <= 12
    /\ player_index = 12 => ~loop_condition(outs, runs)
    /\ "simulate_inning" \notin done => ENABLED NextInning
    /\ "simulate_inning" \in done =>
          IF player_list = <<>>
          THEN player_index = 0 /\ inning_runs = 0
          ELSE outs = 3 \/ runs >= 6

\* an inning that took all 12 at-bats and has returned
C10_Witness ==
    /\ "simulate_inning" \in done /\ player_list # <<>> /\ player_index = 12

\* the recorded averages
Averages == {lineup_results[k][2] : k \in 1..Len(lineup_results)}

MaxAverage == CHOOSE a \in Averages : \A b \in Averages : b <= a

FirstWithMax ==
    CHOOSE k \in 1..Len(lineup_results) :
        /\ lineup_results[k][2] = MaxAverage
        /\ \A j \in 1..(k - 1) : lineup_results[j][2] # MaxAverage

\* C4: after find_best_lineup has evaluated a non-empty sequence of lineups,
\* the best lineup is the first one in evaluation order whose average is the
\* maximum of the recorded averages, and the best average is that maximum
\* (stated for the lineups of a non-empty roster, every average 0 included).
C4_BestIsFirstMaximum ==
    ("find_best_lineup" \in done /\ lineup_results # <<>> /\ all_players # <<>>) =>
        /\ best_lineup = lineup_results[FirstWithMax][1]
        /\ best_avg_runs = MaxAverage

\* C6: for an empty roster generate_legal_lineups returns an empty result
\* set, so find_best_lineup evaluates no lineup: no record, no best lineup.
C6_EmptyRosterEvaluatesNothing ==
    ("generate" \in done /\ all_players = <<>>) =>
        /\ all_lineups = <<>>
        /\ lineup_results = <<>>
        /\ best_lineup = NoLineup

====
